---- MODULE Spec2Model ----
(***************************************************************************)
(* Model of the exio library (src/README.md holds the text of exio.c,      *)
(* src/src/exio.h its interface).  Every function of the library is an     *)
(* independent routine, so each gets its own specification over its own    *)
(* variables: SpecMkpath, SpecConfirm, SpecGetusrln, SpecXdg, SpecSignal.  *)
(* C strings are sequences of one-character strings; NUL is the            *)
(* terminator byte.  Variables marked (history) record what a call did;    *)
(* the code does not hold them.                                            *)
(***************************************************************************)
EXTENDS Integers, Sequences, FiniteSets, TLC

VARIABLES
    stdin,       \* the whole content of standard input
    stdin_pos    \* how many of its bytes have been read

VARIABLES
    in,          \* confirm: char in[3] (in[0..2] of the code are in[1..3] here)
    cf_pc,       \* position in confirm
    cf_ret,      \* the value confirm returned: "true", "false"
    prompts      \* how many times confirm wrote the prompt (history)

VARIABLES
    mode,        \* getusrln: IN_HIDE or IN_SHOW
    has_len,     \* whether input_len is a slot (not NULL)
    is_tty,      \* whether tcgetattr on standard input succeeds
    term_echo,   \* the terminal's ECHO flag
    old,         \* struct termios old: the saved ECHO flag
    buf,         \* the buffer getline allocated, terminator included
    input_sz,    \* what getline returned
    input_len,   \* *input_len (-1: not written)
    gl_pc,       \* position in getusrln
    gl_ret,      \* what getusrln returned: "NULL" or "buf"
    echo0,       \* the ECHO flag on entry (history)
    echo_off,    \* whether the call disabled echo (history)
    line,        \* the bytes getline took from standard input (history)
    restore_failed \* whether the restoring tcsetattr itself failed (history)

VARIABLES
    path,        \* mkpath: the caller's buffer, terminator included
    path_iter,   \* index into path (1-based: C's path + 1 is index 2)
    fs,          \* the filesystem: [dirs, files], sets of component lists
    mk_pc,       \* position in mkpath
    mk_ret,      \* the value mkpath returned: "true", "false"
    path0,       \* the buffer on entry (history)
    fs0,         \* the filesystem on entry (history)
    mk_calls,    \* the C strings handed to mkdir, in order (history)
    mk_fault     \* whether some mkdir call failed for an external reason (history)

VARIABLES
    env_xdg,     \* get_xdg_path: getenv(xdg_dir), [set, val]
    env_home,    \* getenv("HOME"), [set, val]
    sub_dir,     \* the sub_dir argument
    fallback_dir, \* the fallback_dir argument
    xdg_path,    \* the path buffer as a C string, [written, val]
    xdg_ret,     \* the value returned
    errno,       \* errno
    xdg_pc       \* position in get_xdg_path

VARIABLES
    sigdisp,     \* the process's signal dispositions: signal -> struct sigaction
    act,         \* set_handler_term: struct sigaction act
    i,           \* set_handler_term: the loop index (0-based as in the code)
    sg_pc,       \* position in the signal routines
    sigdisp0     \* the dispositions when set_handler_term was called (history)

ioVars  == <<stdin, stdin_pos>>
cfVars  == <<in, cf_pc, cf_ret, prompts>>
glVars  == <<mode, has_len, is_tty, term_echo, old, buf, input_sz, input_len,
             gl_pc, gl_ret, echo0, echo_off, line, restore_failed>>
mkVars  == <<path, path_iter, fs, mk_pc, mk_ret, path0, fs0, mk_calls, mk_fault>>
xdgVars == <<env_xdg, env_home, sub_dir, fallback_dir, xdg_path, xdg_ret, errno,
             xdg_pc>>
sgVars  == <<sigdisp, act, i, sg_pc, sigdisp0>>

vars == <<ioVars, cfVars, glVars, mkVars, xdgVars, sgVars>>

NUL == "NUL"
SEP == "/"
NL  == "\n"

\* The C string held by a buffer: the bytes before the first terminator.
RECURSIVE CStr(_)
CStr(b) ==
    IF b = <<>> \/ Head(b) = NUL THEN <<>> ELSE <<Head(b)>> \o CStr(Tail(b))

(***************************************************************************)
(* The state of a routine that is not running.                             *)
(***************************************************************************)
IoIdle == stdin = <<>> /\ stdin_pos = 0

ConfirmIdle ==
    in = <<NUL, NUL, NUL>> /\ cf_pc = "idle" /\ cf_ret = "none" /\ prompts = 0

GetusrlnIdle ==
    /\ mode = "IN_SHOW" /\ has_len = FALSE /\ is_tty = FALSE
    /\ term_echo = TRUE /\ old = TRUE /\ buf = <<>> /\ input_sz = 0
    /\ input_len = -1 /\ gl_pc = "idle" /\ gl_ret = "none" /\ echo0 = TRUE
    /\ echo_off = FALSE /\ line = <<>> /\ restore_failed = FALSE

MkpathIdle ==
    /\ path = <<NUL>> /\ path_iter = 0 /\ fs = [dirs |-> {<<>>}, files |-> {}]
    /\ mk_pc = "idle" /\ mk_ret = "none" /\ path0 = <<>>
    /\ fs0 = [dirs |-> {<<>>}, files |-> {}]
    /\ mk_calls = <<>> /\ mk_fault = FALSE

XdgIdle ==
    /\ env_xdg = [set |-> FALSE, val |-> <<>>]
    /\ env_home = [set |-> FALSE, val |-> <<>>]
    /\ sub_dir = <<>> /\ fallback_dir = <<>>
    /\ xdg_path = [written |-> FALSE, val |-> <<>>]
    /\ xdg_ret = 0 /\ errno = "none" /\ xdg_pc = "idle"




SignalIdle ==
    /\ sigdisp = <<>> /\ act = <<>> /\ i = 0 /\ sg_pc = "idle" /\ sigdisp0 = <<>>

(***************************************************************************)
(* mkpath                                                                  *)
(***************************************************************************)
\* Longest path (without its terminator) given to mkpath.
MaxPathLen == 4

PathChars == {SEP, "a", "b"}

\* Absolute paths of at most MaxPathLen bytes.
AbsPaths ==
    {p \in UNION {[1..n -> PathChars] : n \in 1..MaxPathLen} : p[1] = SEP}

\* The components of a path: its maximal runs of non-separator bytes.
RECURSIVE Components(_)
Components(s) ==
    IF s = <<>> THEN <<>>
    ELSE IF Head(s) = SEP THEN Components(Tail(s))
    ELSE LET rest == Components(Tail(s))
         IN  IF Len(s) > 1 /\ s[2] # SEP
             THEN <<(<<Head(s)>> \o Head(rest))>> \o Tail(rest)
             ELSE <<(<<Head(s)>>)>> \o rest

\* mkdir(2) on an absolute path: the errno it sets, "OK" when it would create.
MkdirErrno(f, p) ==
    LET c == Components(p)
        bad == {k \in 1..(Len(c) - 1) : SubSeq(c, 1, k) \notin f.dirs}
        first == CHOOSE k \in bad : \A j \in bad : k <= j
    IN  IF p = <<>> THEN "ENOENT"
        ELSE IF c = <<>> THEN "EEXIST"
        ELSE IF bad # {}
             THEN IF SubSeq(c, 1, first) \in f.files THEN "ENOTDIR" ELSE "ENOENT"
        ELSE IF c \in f.dirs \cup f.files THEN "EEXIST"
        ELSE "OK"

\* Every result one mkdir call can have: the one the filesystem decides, or a
\* failure from outside the path (ENOMEM: no kernel memory).
MkdirResults(f, p) == {MkdirErrno(f, p), "ENOMEM"}

\* The filesystem after a mkdir call with result r.
MkdirEffect(f, p, r) ==
    IF r = "OK" THEN [f EXCEPT !.dirs = @ \cup {Components(p)}] ELSE f

\* mkdir(...) != 0 && errno != EEXIST
MkdirFailed(r) == r \notin {"OK", "EEXIST"}

\* *path_iter = '\0'
Truncate(b, k) == [b EXCEPT ![k] = NUL]

\* *path_iter = '/' left out
RestoreForgotten(b, k) == b

\* *path_iter = '/'
Restore(b, k) == [b EXCEPT ![k] = SEP]

\* A path and a filesystem in which some first components of the path are
\* directories and the next one may be a regular file.
InitMkpath ==
    /\ path0 \in AbsPaths
    /\ path = path0 \o <<NUL>>
    /\ \E k \in 0..Len(Components(path0)), withFile \in BOOLEAN :
         LET c == Components(path0)
         IN  fs0 = [dirs  |-> {SubSeq(c, 1, j) : j \in 0..k},
                    files |-> IF withFile /\ k < Len(c)
                              THEN {SubSeq(c, 1, k + 1)} ELSE {}]
    /\ fs = fs0
    /\ path_iter = 2
    /\ mk_pc = "loop"
    /\ mk_ret = "none"
    /\ mk_calls = <<>>
    /\ mk_fault = FALSE
    /\ IoIdle /\ ConfirmIdle /\ GetusrlnIdle /\ XdgIdle /\ SignalIdle

\* for (...; *path_iter; ...) { if (*path_iter != '/') break;
\* the loop ends at the terminator, and at the first byte that is no separator
MkpathLoopExit ==
    /\ mk_pc = "loop"
    /\ path[path_iter] # SEP
    /\ mk_pc' = "final"
    /\ UNCHANGED <<path, path_iter, fs, mk_ret, path0, fs0, mk_calls, mk_fault>>
    /\ UNCHANGED <<ioVars, cfVars, glVars, xdgVars, sgVars>>

\* *path_iter = '\0';
MkpathTruncate ==
    /\ mk_pc = "loop"
    /\ path[path_iter] = SEP
    /\ path' = Truncate(path, path_iter)
    /\ mk_pc' = "mkdir"
    /\ UNCHANGED <<path_iter, fs, mk_ret, path0, fs0, mk_calls, mk_fault>>
    /\ UNCHANGED <<ioVars, cfVars, glVars, xdgVars, sgVars>>

\* if (mkdir(path, ...) != 0 && errno != EEXIST) { restore; return false; }
\* restore; ++path_iter
MkpathMkdir ==
    /\ mk_pc = "mkdir"
    /\ \E r \in MkdirResults(fs, CStr(path)) :
         /\ fs' = MkdirEffect(fs, CStr(path), r)
         /\ mk_calls' = Append(mk_calls, CStr(path))
         /\ mk_fault' = (mk_fault \/ r = "ENOMEM")
         /\ path' = Restore(path, path_iter)
         /\ IF MkdirFailed(r)
            THEN /\ mk_ret' = "false"
                 /\ mk_pc' = "done"
                 /\ UNCHANGED path_iter
            ELSE /\ path_iter' = path_iter + 1
                 /\ mk_pc' = "loop"
                 /\ UNCHANGED mk_ret
    /\ UNCHANGED <<path0, fs0>>
    /\ UNCHANGED <<ioVars, cfVars, glVars, xdgVars, sgVars>>

\* if (mkdir(path, ...) != 0 && errno != EEXIST) return false; return true;
MkpathFinal ==
    /\ mk_pc = "final"
    /\ \E r \in MkdirResults(fs, CStr(path)) :
         /\ fs' = MkdirEffect(fs, CStr(path), r)
         /\ mk_calls' = Append(mk_calls, CStr(path))
         /\ mk_fault' = (mk_fault \/ r = "ENOMEM")
         /\ mk_ret' = IF MkdirFailed(r) THEN "false" ELSE "true"
    /\ mk_pc' = "done"
    /\ UNCHANGED <<path, path_iter, path0, fs0>>
    /\ UNCHANGED <<ioVars, cfVars, glVars, xdgVars, sgVars>>

NextMkpath ==
    \/ MkpathLoopExit
    \/ MkpathTruncate
    \/ MkpathMkdir
    \/ MkpathFinal

SpecMkpath == InitMkpath /\ [][NextMkpath]_vars

(***************************************************************************)
(* Standard input, read by confirm and getusrln                            *)
(***************************************************************************)
\* Longest content of standard input.
MaxInputLen == 5

InputChars == {"y", "n", "Y", NL}

Inputs == UNION {[1..n -> InputChars] : n \in 0..MaxInputLen}

\* The bytes not yet read.
Unread(s, pos) == SubSeq(s, pos + 1, Len(s))

\* The bytes one line read takes from r, at most max of them (max < 0: no
\* limit): up to and including the first line terminator, or all of r.
RECURSIVE ReadLine(_, _)
ReadLine(r, max) ==
    IF r = <<>> \/ max = 0 THEN <<>>
    ELSE IF Head(r) = NL THEN <<NL>>
    ELSE <<Head(r)>> \o ReadLine(Tail(r), max - 1)

(***************************************************************************)
(* confirm                                                                 *)
(***************************************************************************)
CHAR_YES == "y"
CHAR_NO  == "n"

\* sizeof(in)
InSize == 3

\* fgets(in, sizeof(in), stdin): the bytes it takes, at most sizeof(in) - 1.
FgetsBytes(s, pos) == ReadLine(Unread(s, pos), InSize - 1)

\* The array after fgets stored the bytes and a terminator.
FgetsStore(a, bytes) ==
    [k \in 1..InSize |->
        IF k <= Len(bytes) THEN bytes[k]
        ELSE IF k = Len(bytes) + 1 THEN NUL
        ELSE a[k]]

\* in[1] != '\n' alone
NeedsDrainSecondOnly(a) == a[2] # NL

\* in[1] != '\n' && in[0] != '\n'
NeedsDrain(a) == a[2] # NL /\ a[1] # NL

InitConfirm ==
    /\ stdin \in Inputs
    /\ stdin_pos = 0
    /\ in = <<NUL, NUL, NUL>>
    /\ cf_pc = "prompt"
    /\ cf_ret = "none"
    /\ prompts = 0
    /\ GetusrlnIdle /\ MkpathIdle /\ XdgIdle /\ SignalIdle

\* fputs(prompt, stderr); if (!fgets(...)) return false;  -- end of input
ConfirmFgetsEOF ==
    /\ cf_pc = "prompt"
    /\ FgetsBytes(stdin, stdin_pos) = <<>>
    /\ prompts' = prompts + 1
    /\ cf_ret' = "false"
    /\ cf_pc' = "done"
    /\ UNCHANGED <<stdin, stdin_pos, in>>
    /\ UNCHANGED <<glVars, mkVars, xdgVars, sgVars>>

\* fputs(prompt, stderr); fgets(in, sizeof(in), stdin)  -- bytes were read
ConfirmFgets ==
    /\ cf_pc = "prompt"
    /\ FgetsBytes(stdin, stdin_pos) # <<>>
    /\ prompts' = prompts + 1
    /\ in' = FgetsStore(in, FgetsBytes(stdin, stdin_pos))
    /\ stdin_pos' = stdin_pos + Len(FgetsBytes(stdin, stdin_pos))
    /\ cf_pc' = "check"
    /\ UNCHANGED <<stdin, cf_ret>>
    /\ UNCHANGED <<glVars, mkVars, xdgVars, sgVars>>

\* if (in[1] != '\n' && in[0] != '\n') { drain; continue; }
ConfirmDrainStart ==
    /\ cf_pc = "check"
    /\ NeedsDrain(in)
    /\ cf_pc' = "drain"
    /\ UNCHANGED <<stdin, stdin_pos, in, cf_ret, prompts>>
    /\ UNCHANGED <<glVars, mkVars, xdgVars, sgVars>>

\* while ((c = fgetc(stdin)) != '\n' && c != EOF);  -- a byte that is neither
ConfirmDrainChar ==
    /\ cf_pc = "drain"
    /\ stdin_pos < Len(stdin)
    /\ stdin[stdin_pos + 1] # NL
    /\ stdin_pos' = stdin_pos + 1
    /\ UNCHANGED <<stdin, in, cf_pc, cf_ret, prompts>>
    /\ UNCHANGED <<glVars, mkVars, xdgVars, sgVars>>

\* the drain loop reads the line terminator; continue;
ConfirmDrainNewline ==
    /\ cf_pc = "drain"
    /\ stdin_pos < Len(stdin)
    /\ stdin[stdin_pos + 1] = NL
    /\ stdin_pos' = stdin_pos + 1
    /\ cf_pc' = "prompt"
    /\ UNCHANGED <<stdin, in, cf_ret, prompts>>
    /\ UNCHANGED <<glVars, mkVars, xdgVars, sgVars>>

\* the drain loop reads EOF; continue;
ConfirmDrainEOF ==
    /\ cf_pc = "drain"
    /\ stdin_pos = Len(stdin)
    /\ cf_pc' = "prompt"
    /\ UNCHANGED <<stdin, stdin_pos, in, cf_ret, prompts>>
    /\ UNCHANGED <<glVars, mkVars, xdgVars, sgVars>>

\* if (in[0] == CHAR_YES) return true;
ConfirmYes ==
    /\ cf_pc = "check"
    /\ ~NeedsDrain(in)
    /\ in[1] = CHAR_YES
    /\ cf_ret' = "true"
    /\ cf_pc' = "done"
    /\ UNCHANGED <<stdin, stdin_pos, in, prompts>>
    /\ UNCHANGED <<glVars, mkVars, xdgVars, sgVars>>

\* else if (in[0] == CHAR_NO) return false;
ConfirmNo ==
    /\ cf_pc = "check"
    /\ ~NeedsDrain(in)
    /\ in[1] # CHAR_YES
    /\ in[1] = CHAR_NO
    /\ cf_ret' = "false"
    /\ cf_pc' = "done"
    /\ UNCHANGED <<stdin, stdin_pos, in, prompts>>
    /\ UNCHANGED <<glVars, mkVars, xdgVars, sgVars>>

\* else continue;
ConfirmOther ==
    /\ cf_pc = "check"
    /\ ~NeedsDrain(in)
    /\ in[1] # CHAR_YES
    /\ in[1] # CHAR_NO
    /\ cf_pc' = "prompt"
    /\ UNCHANGED <<stdin, stdin_pos, in, cf_ret, prompts>>
    /\ UNCHANGED <<glVars, mkVars, xdgVars, sgVars>>

NextConfirm ==
    \/ ConfirmFgetsEOF
    \/ ConfirmFgets
    \/ ConfirmDrainStart
    \/ ConfirmDrainChar
    \/ ConfirmDrainNewline
    \/ ConfirmDrainEOF
    \/ ConfirmYes
    \/ ConfirmNo
    \/ ConfirmOther

SpecConfirm == InitConfirm /\ [][NextConfirm]_vars

\* confirm is a running loop: a step that can be taken is taken.
SpecConfirmFair == SpecConfirm /\ WF_vars(NextConfirm)

(***************************************************************************)
(* getusrln                                                                *)
(***************************************************************************)
\* Longest content of standard input given to getusrln.
MaxLineInput == 3

LineInputs == {s \in Inputs : Len(s) <= MaxLineInput}

\* getline(&buf, &buf_sz, stdin): the bytes of the next line, its terminator
\* included when the input has one; none at end of input.
GetlineBytes(s, pos) == ReadLine(Unread(s, pos), -1)

\* new.c_lflag &= ~ECHO
WithoutEcho(flag) == FALSE

\* *input_len = input_sz - 1
LenWithoutNewline(sz) == sz - 1

\* buf[input_sz - 1] = '\0'
TerminateAtNewline(b, sz) == [b EXCEPT ![sz] = NUL]

\* The bytes the caller gets: input_len bytes of the buffer when a slot was
\* given, the buffer as a C string when not.
ReturnedBytes ==
    IF has_len THEN SubSeq(buf, 1, input_len) ELSE CStr(buf)

InitGetusrln ==
    /\ stdin \in LineInputs
    /\ stdin_pos = 0
    /\ mode \in {"IN_HIDE", "IN_SHOW"}
    /\ has_len \in BOOLEAN
    /\ is_tty \in BOOLEAN
    /\ term_echo \in BOOLEAN
    /\ echo0 = term_echo
    /\ old = FALSE
    /\ buf = <<>>
    /\ input_sz = 0
    /\ input_len = -1
    /\ gl_pc = "start"
    /\ gl_ret = "none"
    /\ echo_off = FALSE
    /\ line = <<>>
    /\ restore_failed = FALSE
    /\ ConfirmIdle /\ MkpathIdle /\ XdgIdle /\ SignalIdle

\* mode != IN_HIDE: the terminal is left alone
GetusrlnShow ==
    /\ gl_pc = "start"
    /\ mode = "IN_SHOW"
    /\ gl_pc' = "getline"
    /\ UNCHANGED <<mode, has_len, is_tty, term_echo, old, buf, input_sz,
                   input_len, gl_ret, echo0, echo_off, line, restore_failed>>
    /\ UNCHANGED <<ioVars, cfVars, mkVars, xdgVars, sgVars>>

\* if (tcgetattr(STDIN_FILENO, &old) != 0) return NULL;
GetusrlnNoTermios ==
    /\ gl_pc = "start"
    /\ mode = "IN_HIDE"
    /\ ~is_tty
    /\ gl_ret' = "NULL"
    /\ gl_pc' = "done"
    /\ UNCHANGED <<mode, has_len, is_tty, term_echo, old, buf, input_sz,
                   input_len, echo0, echo_off, line, restore_failed>>
    /\ UNCHANGED <<ioVars, cfVars, mkVars, xdgVars, sgVars>>

\* tcgetattr succeeds; new = old; new.c_lflag &= ~ECHO;
\* if (tcsetattr(STDIN_FILENO, TCSAFLUSH, &new) != 0) return NULL;
GetusrlnDisableEcho ==
    /\ gl_pc = "start"
    /\ mode = "IN_HIDE"
    /\ is_tty
    /\ old' = term_echo
    /\ \E ok \in BOOLEAN :
         IF ok
         THEN /\ term_echo' = WithoutEcho(term_echo)
              /\ echo_off' = TRUE
              /\ gl_pc' = "getline"
              /\ UNCHANGED gl_ret
         ELSE /\ gl_ret' = "NULL"
              /\ gl_pc' = "done"
              /\ UNCHANGED <<term_echo, echo_off>>
    /\ UNCHANGED <<mode, has_len, is_tty, buf, input_sz, input_len, echo0, line,
                   restore_failed>>
    /\ UNCHANGED <<ioVars, cfVars, mkVars, xdgVars, sgVars>>

\* fputs(prompt, stderr); input_sz = getline(&buf, &buf_sz, stdin);
\* if (input_sz == -1) goto fail;  -- fail: free(buf); return NULL;
\* getline fails at end of input, and may fail for want of memory.
GetusrlnGetline ==
    /\ gl_pc = "getline"
    /\ \E failed \in BOOLEAN :
         IF failed \/ GetlineBytes(stdin, stdin_pos) = <<>>
         THEN /\ input_sz' = -1
              /\ gl_ret' = "NULL"
              /\ gl_pc' = "done"
              /\ UNCHANGED <<buf, line, stdin_pos>>
         ELSE /\ line' = GetlineBytes(stdin, stdin_pos)
              /\ buf' = line' \o <<NUL>>
              /\ input_sz' = Len(line')
              /\ stdin_pos' = stdin_pos + Len(line')
              /\ gl_pc' = IF mode = "IN_HIDE" THEN "restore" ELSE "strip"
              /\ UNCHANGED gl_ret
    /\ UNCHANGED <<mode, has_len, is_tty, term_echo, old, input_len, echo0,
                   echo_off, restore_failed, stdin>>
    /\ UNCHANGED <<cfVars, mkVars, xdgVars, sgVars>>

\* if (mode == IN_HIDE && tcsetattr(STDIN_FILENO, TCSAFLUSH, &old) != 0)
\*     goto fail;
GetusrlnRestoreEcho ==
    /\ gl_pc = "restore"
    /\ \E ok \in BOOLEAN :
         IF ok
         THEN /\ term_echo' = old
              /\ gl_pc' = "strip"
              /\ UNCHANGED <<gl_ret, restore_failed>>
         ELSE /\ restore_failed' = TRUE
              /\ gl_ret' = "NULL"
              /\ gl_pc' = "done"
              /\ UNCHANGED term_echo
    /\ UNCHANGED <<mode, has_len, is_tty, old, buf, input_sz, input_len, echo0,
                   echo_off, line>>
    /\ UNCHANGED <<ioVars, cfVars, mkVars, xdgVars, sgVars>>

\* if (input_len) *input_len = input_sz - 1;
\* else buf[input_sz - 1] = '\0';
\* return buf;
GetusrlnStrip ==
    /\ gl_pc = "strip"
    /\ IF has_len
       THEN /\ input_len' = LenWithoutNewline(input_sz)
            /\ UNCHANGED buf
       ELSE /\ buf' = TerminateAtNewline(buf, input_sz)
            /\ UNCHANGED input_len
    /\ gl_ret' = "buf"
    /\ gl_pc' = "done"
    /\ UNCHANGED <<mode, has_len, is_tty, term_echo, old, input_sz, echo0,
                   echo_off, line, restore_failed>>
    /\ UNCHANGED <<ioVars, cfVars, mkVars, xdgVars, sgVars>>

NextGetusrln ==
    \/ GetusrlnShow
    \/ GetusrlnNoTermios
    \/ GetusrlnDisableEcho
    \/ GetusrlnGetline
    \/ GetusrlnRestoreEcho
    \/ GetusrlnStrip

SpecGetusrln == InitGetusrln /\ [][NextGetusrln]_vars

(***************************************************************************)
(* get_xdg_path                                                            *)
(***************************************************************************)
\* limits.h's PATH_MAX, scaled down so that paths around it can be enumerated.
PATH_MAX == 6

\* Longest environment value and longest directory argument.
MaxStrLen == 3

\* The strings of one repeated byte c, up to MaxStrLen bytes.
StrsOf(c) == UNION {[1..n -> {c}] : n \in 0..MaxStrLen}

\* An environment variable: unset, or set to a string of byte c.
EnvValues(c) ==
    {[set |-> FALSE, val |-> <<>>]} \cup {[set |-> TRUE, val |-> v] : v \in StrsOf(c)}

\* snprintf(path, size, ...): the first size - 1 bytes of the formatted text.
Snprintf(size, text) ==
    IF Len(text) <= size - 1 THEN text ELSE SubSeq(text, 1, size - 1)

\* "%s/%s"
Format2(a, b) == a \o <<SEP>> \o b

\* "%s/%s/%s"
Format3(a, b, c) == a \o <<SEP>> \o b \o <<SEP>> \o c

\* strlen(xdg) + strlen(sub_dir) + 1 > PATH_MAX
TooLong2(a, b) == Len(a) + Len(b) + 1 > PATH_MAX

\* strlen(home) + strlen(fallback_dir) + strlen(sub_dir) + 2 > PATH_MAX
TooLong3(a, b, c) == Len(a) + Len(b) + Len(c) + 2 > PATH_MAX

InitXdg ==
    /\ env_xdg \in EnvValues("x")
    /\ env_home \in EnvValues("h")
    /\ sub_dir \in StrsOf("s")
    /\ fallback_dir \in StrsOf("f")
    /\ xdg_path = [written |-> FALSE, val |-> <<>>]
    /\ xdg_ret = 0
    /\ errno = "none"
    /\ xdg_pc = "start"
    /\ IoIdle /\ ConfirmIdle /\ GetusrlnIdle /\ MkpathIdle /\ SignalIdle

\* if ((xdg = getenv(xdg_dir))) { ...length fits...
\*     snprintf(path, PATH_MAX, "%s/%s", xdg, sub_dir); } return 0;
XdgFromXdgDir ==
    /\ xdg_pc = "start"
    /\ env_xdg.set
    /\ ~TooLong2(env_xdg.val, sub_dir)
    /\ xdg_path' = [written |-> TRUE,
                    val |-> Snprintf(PATH_MAX, Format2(env_xdg.val, sub_dir))]
    /\ xdg_ret' = 0
    /\ xdg_pc' = "done"
    /\ UNCHANGED <<env_xdg, env_home, sub_dir, fallback_dir, errno>>
    /\ UNCHANGED <<ioVars, cfVars, glVars, mkVars, sgVars>>

\* else if ((home = getenv("HOME"))) { ...length fits...
\*     snprintf(path, PATH_MAX, "%s/%s/%s", home, fallback_dir, sub_dir); }
\* return 0;
XdgFromHome ==
    /\ xdg_pc = "start"
    /\ ~env_xdg.set
    /\ env_home.set
    /\ ~TooLong3(env_home.val, fallback_dir, sub_dir)
    /\ xdg_path' =
         [written |-> TRUE,
          val |-> Snprintf(PATH_MAX, Format3(env_home.val, fallback_dir, sub_dir))]
    /\ xdg_ret' = 0
    /\ xdg_pc' = "done"
    /\ UNCHANGED <<env_xdg, env_home, sub_dir, fallback_dir, errno>>
    /\ UNCHANGED <<ioVars, cfVars, glVars, mkVars, sgVars>>

\* goto fail;  -- fail: errno = ENAMETOOLONG; return -1;
XdgTooLong ==
    /\ xdg_pc = "start"
    /\ \/ env_xdg.set /\ TooLong2(env_xdg.val, sub_dir)
       \/ /\ ~env_xdg.set
          /\ env_home.set
          /\ TooLong3(env_home.val, fallback_dir, sub_dir)
    /\ errno' = "ENAMETOOLONG"
    /\ xdg_ret' = -1
    /\ xdg_pc' = "done"
    /\ UNCHANGED <<env_xdg, env_home, sub_dir, fallback_dir, xdg_path>>
    /\ UNCHANGED <<ioVars, cfVars, glVars, mkVars, sgVars>>

\* else { return -2; }
XdgNoEnvironment ==
    /\ xdg_pc = "start"
    /\ ~env_xdg.set
    /\ ~env_home.set
    /\ xdg_ret' = -2
    /\ xdg_pc' = "done"
    /\ UNCHANGED <<env_xdg, env_home, sub_dir, fallback_dir, xdg_path, errno>>
    /\ UNCHANGED <<ioVars, cfVars, glVars, mkVars, sgVars>>

NextXdg ==
    \/ XdgFromXdgDir
    \/ XdgFromHome
    \/ XdgTooLong
    \/ XdgNoEnvironment

SpecXdg == InitXdg /\ [][NextXdg]_vars

(***************************************************************************)
(* set_handler_segv, set_handler_term, reset_handler                       *)
(***************************************************************************)
\* int term_sigs[]: the Standard C signals, which every platform defines (the
\* POSIX and BSD ones are compiled in only where the platform defines them).
term_sigs == <<"SIGINT", "SIGTERM", "SIGABRT", "SIGFPE", "SIGILL">>

TermSigSet == {term_sigs[k] : k \in 1..Len(term_sigs)}

\* The signals of the process: the terminal ones and two others.
Signals == TermSigSet \cup {"SIGSEGV", "SIGCHLD"}

\* A struct sigaction.
Sigaction(h, flags, mask) ==
    [sa_handler |-> h, sa_flags |-> flags, sa_mask |-> mask]

\* memset(&act, 0, sizeof(act))
ZeroAct == Sigaction("SIG_DFL", {}, {})

\* if (test.sa_handler != SIG_IGN) left out
InstallsAlways(test) == TRUE

\* if (test.sa_handler != SIG_IGN)
Installs(test) == test.sa_handler # "SIG_IGN"

\* sigaddset(&act.sa_mask, term_sigs[i])
AddToMask(a, sig) == [a EXCEPT !.sa_mask = @ \cup {sig}]

\* Any dispositions the process may have set before: default, ignored, or a
\* handler of its own.
InitSignal ==
    /\ sigdisp \in [Signals -> {Sigaction(h, {}, {}) :
                                    h \in {"SIG_DFL", "SIG_IGN", "other"}}]
    /\ sigdisp0 = sigdisp
    /\ act = ZeroAct
    /\ i = 0
    /\ sg_pc = "idle"
    /\ IoIdle /\ ConfirmIdle /\ GetusrlnIdle /\ MkpathIdle /\ XdgIdle

\* set_handler_segv(func): sigfillset(&act.sa_mask); act.sa_handler = func;
\* sigaction(SIGSEGV, &act, NULL);
SetHandlerSegv ==
    /\ sg_pc = "idle"
    /\ sigdisp' = [sigdisp EXCEPT !["SIGSEGV"] = Sigaction("func", {}, Signals)]
    /\ sigdisp0' = sigdisp'
    /\ UNCHANGED <<act, i, sg_pc>>
    /\ UNCHANGED <<ioVars, cfVars, glVars, mkVars, xdgVars>>

\* reset_handler(signo): sigemptyset(&act.sa_mask); act.sa_handler = SIG_DFL;
\* act.sa_flags = 0; sigaction(signo, &act, NULL);
ResetHandler ==
    /\ sg_pc = "idle"
    /\ \E signo \in Signals :
         sigdisp' = [sigdisp EXCEPT ![signo] = Sigaction("SIG_DFL", {}, {})]
    /\ sigdisp0' = sigdisp'
    /\ UNCHANGED <<act, i, sg_pc>>
    /\ UNCHANGED <<ioVars, cfVars, glVars, mkVars, xdgVars>>

\* set_handler_term(func): memset(&act, 0, sizeof(act));
\* act.sa_handler = func; act.sa_flags = SA_RESTART; i = 0
SetHandlerTermCall ==
    /\ sg_pc = "idle"
    /\ act' = Sigaction("func", {"SA_RESTART"}, {})
    /\ i' = 0
    /\ sg_pc' = "loop"
    /\ UNCHANGED <<sigdisp, sigdisp0>>
    /\ UNCHANGED <<ioVars, cfVars, glVars, mkVars, xdgVars>>

\* sigaction(term_sigs[i], NULL, &test); test.sa_handler is SIG_IGN: ++i
SetHandlerTermSkip ==
    /\ sg_pc = "loop"
    /\ i < Len(term_sigs)
    /\ ~Installs(sigdisp[term_sigs[i + 1]])
    /\ i' = i + 1
    /\ UNCHANGED <<sigdisp, act, sg_pc, sigdisp0>>
    /\ UNCHANGED <<ioVars, cfVars, glVars, mkVars, xdgVars>>

\* sigaddset(&act.sa_mask, term_sigs[i]); sigaction(term_sigs[i], &act, NULL); ++i
SetHandlerTermInstall ==
    /\ sg_pc = "loop"
    /\ i < Len(term_sigs)
    /\ Installs(sigdisp[term_sigs[i + 1]])
    /\ act' = AddToMask(act, term_sigs[i + 1])
    /\ sigdisp' = [sigdisp EXCEPT ![term_sigs[i + 1]] = act']
    /\ i' = i + 1
    /\ UNCHANGED <<sg_pc, sigdisp0>>
    /\ UNCHANGED <<ioVars, cfVars, glVars, mkVars, xdgVars>>

\* i < ARRAY_LEN(term_sigs) is false: return
SetHandlerTermReturn ==
    /\ sg_pc = "loop"
    /\ i = Len(term_sigs)
    /\ sg_pc' = "done"
    /\ UNCHANGED <<sigdisp, act, i, sigdisp0>>
    /\ UNCHANGED <<ioVars, cfVars, glVars, mkVars, xdgVars>>

NextSignal ==
    \/ SetHandlerSegv
    \/ ResetHandler
    \/ SetHandlerTermCall
    \/ SetHandlerTermSkip
    \/ SetHandlerTermInstall
    \/ SetHandlerTermReturn

SpecSignal == InitSignal /\ [][NextSignal]_vars

(***************************************************************************)
(* Claims about mkpath (under SpecMkpath)                                  *)
(***************************************************************************)
\* Every directory along a path: each non-empty list of its first components.
DirsAlong(p) ==
    {SubSeq(Components(p), 1, k) : k \in 1..Len(Components(p))}

\* C2: for an absolute path whose chain is creatable (no component exists as a
\* regular file and no mkdir call fails for an outside reason), mkpath returns
\* true and every directory along the path exists afterwards.  (The claim also
\* counts the mkdir calls, one per separator after the first byte and one for
\* the full path; the result alone is stated here.)
C2_MkpathCreatesWholeChain ==
    (mk_pc = "done" /\ ~mk_fault /\ fs0.files = {})
        => /\ mk_ret = "true"
           /\ DirsAlong(path0) \subseteq fs.dirs

\* C3: when mkpath has returned, true or false, the caller's buffer holds the
\* bytes it held on entry.
C3_MkpathRestoresBuffer ==
    mk_pc = "done" => path = path0 \o <<NUL>>

\* C3's case: a mkdir call on a truncated buffer failed and mkpath returned false.
C3_Witness ==
    /\ mk_pc = "done"
    /\ mk_ret = "false"
    /\ mk_calls # <<>>
    /\ mk_calls[Len(mk_calls)] # path0

\* C10: whenever mkpath returns true, the full path exists as a directory.
C10_TrueMeansDirectoryExists ==
    (mk_pc = "done" /\ mk_ret = "true") => Components(path0) \in fs.dirs

(***************************************************************************)
(* Claims about confirm (under SpecConfirmFair)                            *)
(***************************************************************************)
\* What the input decides, line by line: the first line that is exactly "y" or
\* "n" gives the answer; n counts the lines rejected before it.
RECURSIVE ExpectFrom(_, _, _)
ExpectFrom(s, pos, n) ==
    LET l == ReadLine(Unread(s, pos), -1)
    IN  IF l = <<>> THEN [ret |-> "false", prompts |-> n + 1, pos |-> pos]
        ELSE IF l = <<CHAR_YES, NL>>
             THEN [ret |-> "true", prompts |-> n + 1, pos |-> pos + 2]
        ELSE IF l = <<CHAR_NO, NL>>
             THEN [ret |-> "false", prompts |-> n + 1, pos |-> pos + 2]
        ELSE ExpectFrom(s, pos + Len(l), n + 1)

AtLineStart ==
    stdin_pos = 0 \/ stdin_pos = Len(stdin) \/ stdin[stdin_pos] = NL

ConfirmOutcome ==
    /\ cf_pc = "done" =>
         /\ cf_ret = ExpectFrom(stdin, 0, 0).ret
         /\ prompts = ExpectFrom(stdin, 0, 0).prompts
         /\ stdin_pos = ExpectFrom(stdin, 0, 0).pos
    /\ cf_pc = "prompt" => AtLineStart

\* C5: confirm returns true exactly when the first line that is "y" or "n" alone
\* is the "y" line; every line before it is consumed whole (each read of a new
\* answer starts at a line start) and costs one more prompt; when the input
\* ends first it returns false; and it always returns.
C5_ConfirmFirstBareAnswer == []ConfirmOutcome /\ <>(cf_pc = "done")

\* C5's case: a line was rejected, the next answer was read and accepted.
C5_Witness ==
    cf_pc = "done" /\ cf_ret = "true" /\ prompts >= 2 /\ stdin_pos < Len(stdin)

(***************************************************************************)
(* Claims about getusrln (under SpecGetusrln)                              *)
(***************************************************************************)
\* C1: once the call has disabled echo, the terminal's echo flag after return
\* is what it was on entry, on every exit path (the one path left aside is a
\* failure of the restoring tcsetattr call itself).
C1_EchoRestoredOnEveryExit ==
    (gl_pc = "done" /\ echo_off /\ ~restore_failed) => term_echo = echo0

\* A line with only its trailing terminator removed.
WithoutTerminator(l) ==
    IF l # <<>> /\ l[Len(l)] = NL THEN SubSeq(l, 1, Len(l) - 1) ELSE l

\* C8: on success the caller gets the bytes of the line read with only its
\* trailing terminator removed: as input_len bytes when a slot was given, as a
\* C string when not; a final line without a terminator loses no byte.
C8_LineReturnedWithoutTerminator ==
    (gl_pc = "done" /\ gl_ret = "buf") =>
        /\ ReturnedBytes = WithoutTerminator(line)
        /\ has_len => input_len = Len(WithoutTerminator(line))

(***************************************************************************)
(* Claims about get_xdg_path (under SpecXdg)                               *)
(***************************************************************************)
\* C6: when no length limit is near, the base is chosen so: the variable named
\* by xdg_dir when it is set and non-empty (result <value>/<sub_dir>, 0);
\* otherwise HOME when it is set (result <home>/<fallback_dir>/<sub_dir>, 0);
\* otherwise the call returns -2.
C6_XdgBaseChoice ==
    xdg_pc = "done" =>
        IF env_xdg.set /\ env_xdg.val # <<>>
        THEN Len(Format2(env_xdg.val, sub_dir)) < PATH_MAX =>
                /\ xdg_ret = 0
                /\ xdg_path.val = Format2(env_xdg.val, sub_dir)
        ELSE IF env_home.set
        THEN Len(Format3(env_home.val, fallback_dir, sub_dir)) < PATH_MAX =>
                /\ xdg_ret = 0
                /\ xdg_path.val = Format3(env_home.val, fallback_dir, sub_dir)
        ELSE xdg_ret = -2

\* The path the call composes from the base it takes.
ComposedPath ==
    IF env_xdg.set THEN Format2(env_xdg.val, sub_dir)
    ELSE Format3(env_home.val, fallback_dir, sub_dir)

\* C7: no silent truncation: a composed path longer than PATH_MAX gives -1 and
\* errno ENAMETOOLONG, and whenever the call returns 0 the buffer holds the
\* whole composed path.
C7_XdgNeverTruncates ==
    (xdg_pc = "done" /\ (env_xdg.set \/ env_home.set)) =>
        /\ Len(ComposedPath) > PATH_MAX =>
              xdg_ret = -1 /\ errno = "ENAMETOOLONG"
        /\ xdg_ret = 0 =>
              xdg_path.written /\ xdg_path.val = ComposedPath

(***************************************************************************)
(* Claims about set_handler_term (under SpecSignal)                        *)
(***************************************************************************)
\* The terminal signals the call installed the handler on.
Installed == {s \in TermSigSet : sigdisp0[s].sa_handler # "SIG_IGN"}

\* C4: after set_handler_term, the blocked mask registered for every signal
\* the handler was installed on contains all the signals installed by the
\* call.
C4_MaskHoldsAllInstalled ==
    sg_pc = "done" => \A s \in Installed : Installed \subseteq sigdisp[s].sa_mask

\* C9: after set_handler_term, a terminal signal that was ignored is as it
\* was, every other terminal signal has handler func with SA_RESTART, and
\* every signal outside the set is as it was.
C9_IgnoredAndOutsideUntouched ==
    sg_pc = "done" =>
        \A s \in Signals :
            IF s \in TermSigSet /\ sigdisp0[s].sa_handler # "SIG_IGN"
            THEN /\ sigdisp[s].sa_handler = "func"
                 /\ "SA_RESTART" \in sigdisp[s].sa_flags
            ELSE sigdisp[s] = sigdisp0[s]

\* C9's case: the call has returned; one terminal signal was ignored, another
\* got the handler, and SIGSEGV had a handler of its own kind before.
C9_Witness ==
    /\ sg_pc = "done"
    /\ \E s \in TermSigSet : sigdisp0[s].sa_handler = "SIG_IGN"
    /\ \E s \in TermSigSet : sigdisp[s].sa_handler = "func"
    /\ sigdisp0["SIGSEGV"].sa_handler = "func"

====
